---- MODULE Spec2Model ----
(***************************************************************************)
(* Tree alignment and similarity engine of sql-similarity.                 *)
(*                                                                         *)
(* A parse tree is a sqlglot Expression tree.  Its nodes are numbered in   *)
(* preorder, 1 is the root, and node i carries                             *)
(*   cls[i]    the name of its Python class (type(node).__name__),         *)
(*   parent[i] its parent node (0 is Python's None),                       *)
(*   args[i]   the values of node.args in order, each one an Expression,   *)
(*             a list of values, or some other value (a str, a bool).      *)
(* A node handed around by the program is a node number; the pair          *)
(* (node1, node2) of an edit mapping is <<i, j>> with 0 for None.          *)
(***************************************************************************)
EXTENDS Integers, Sequences, FiniteSets, TLC

VARIABLES tree1, tree2, pc, distance, mapping, operations, score,
          sDistance, sSize1, sSize2, sPc, sScore,
          directory, bPc, batchResult,
          args, dirExists, cPc, cResult, filtered_comparisons, output,
          exit_code,
          fComparisons, fMax, fTop, fPc, fResult,
          pArgs, pFile1, pFile2, pPc, pStdout, pStderr, pExit, pException,
          tStruct, tOp, tNode, tPc, tStack, tCurrent, tPathParts, tResult,
          tException

vars == <<tree1, tree2, pc, distance, mapping, operations, score,
          sDistance, sSize1, sSize2, sPc, sScore,
          directory, bPc, batchResult,
          args, dirExists, cPc, cResult, filtered_comparisons, output,
          exit_code,
          fComparisons, fMax, fTop, fPc, fResult,
          pArgs, pFile1, pFile2, pPc, pStdout, pStderr, pExit, pException,
          tStruct, tOp, tNode, tPc, tStack, tCurrent, tPathParts, tResult,
          tException>>

treeVars == <<tree1, tree2, pc, distance, mapping, operations, score>>

scoreVars == <<sDistance, sSize1, sSize2, sPc, sScore>>

(* The directory listing, and compare_all_pairs on it. *)
batchVars == <<directory, bPc, batchResult>>

(* BatchController.execute: its arguments, its position and its results. *)
controllerVars == <<args, dirExists, cPc, cResult, filtered_comparisons,
                    output, exit_code>>

(* The two filters on their own: arguments, position and result. *)
filterVars == <<fComparisons, fMax, fTop, fPc, fResult>>

(* PairController.execute: its arguments, what the two paths name, its     *)
(* position, what it printed, what it returned and what escaped it.        *)
pairVars == <<pArgs, pFile1, pFile2, pPc, pStdout, pStderr, pExit,
              pException>>

(* tree_size and _get_tree_path run one step at a time on a structure of    *)
(* nodes that need not be a tree: the structure, the function called and    *)
(* its argument, its position, the frames of the recursion, the variables   *)
(* of the loop, the value returned and the exception raised.                *)
structVars == <<tStruct, tOp, tNode, tPc, tStack, tCurrent, tPathParts,
                tResult, tException>>

(* Largest number of nodes of an input tree. *)
MaxNodes == 3

(* Largest distance and size handed to compute_score on its own. *)
MaxArg == 4

(* Largest number of comparisons in a list handed to a filter on its own. *)
MaxPairs == 3

(* Largest distance of such a comparison, and largest threshold. *)
MaxThreshold == 3

(* Class names of the nodes: one structural class, one terminal class. *)
Labels == {"Select", "Identifier"}

(* Python's None where a label or a result is expected. *)
None == "<None>"

(* An optional value: None is the empty tuple, a value v the tuple <<v>>. *)
Nothing == <<>>

Some(v) == <<v>>

----------------------------------------------------------------------------
(* Helpers on sequences and sets of numbers. *)

Min2(a, b) == IF a <= b THEN a ELSE b

Max2(a, b) == IF a >= b THEN a ELSE b

SetMin(S) == CHOOSE x \in S : \A y \in S : x <= y

RECURSIVE SortedSeq(_)
SortedSeq(S) ==
  IF S = {} THEN <<>>
  ELSE LET m == SetMin(S) IN <<m>> \o SortedSeq(S \ {m})

----------------------------------------------------------------------------
(* The values of node.args. *)

ExprArg(j) == [tag |-> "expr", node |-> j]

ListArg(items) == [tag |-> "list", items |-> items]

OtherArg == [tag |-> "other"]

(* The nodes whose parent is i, left to right. *)
KidsOf(par, i) == SortedSeq({j \in 1..Len(par) : par[j] = i})

(* node.args as the front-end builds it for a node of class c with the      *)
(* child expressions kids: a Select keeps its leading children in a list    *)
(* (expressions=[...]), a flag, and its last child as an argument of its    *)
(* own (from=...); an Identifier keeps its text (this="id") and then one    *)
(* argument per child.                                                      *)
MkArgs(c, kids) ==
  LET k == Len(kids)
      own == [x \in 1..k |-> ExprArg(kids[x])]
  IN IF c = "Select"
       THEN IF k >= 2
              THEN <<ListArg(SubSeq(own, 1, k - 1)), OtherArg, own[k]>>
              ELSE <<ListArg(own), OtherArg>>
       ELSE <<OtherArg>> \o own

(* The parent arrays of the ordered trees of n nodes in preorder: node i    *)
(* hangs under node i-1 or under one of its ancestors.                      *)
RECURSIVE RightPath(_, _)
RightPath(par, k) == IF k = 0 THEN {} ELSE {k} \cup RightPath(par, par[k])

RECURSIVE ParentArrays(_)
ParentArrays(n) ==
  IF n = 1 THEN {<<0>>}
  ELSE {Append(p, q) : <<p, q>> \in
          {<<p, q>> \in ParentArrays(n - 1) \X (1..(n - 1)) :
             q \in RightPath(p, n - 1)}}

MkTree(par, cl) ==
  [n |-> Len(par), isExpr |-> TRUE, cls |-> cl, parent |-> par,
   args |-> [i \in 1..Len(par) |-> MkArgs(cl[i], KidsOf(par, i))]]

TreesOfSize(n) ==
  {MkTree(par, cl) : par \in ParentArrays(n), cl \in [1..n -> Labels]}

Trees == UNION {TreesOfSize(n) : n \in 1..MaxNodes}

----------------------------------------------------------------------------
(* SQLGlotConfig *)

RECURSIVE listChildren(_)
listChildren(items) ==
  IF items = <<>> THEN <<>>
  ELSE (IF Head(items).tag = "expr" THEN <<Head(items).node>> ELSE <<>>)
         \o listChildren(Tail(items))

RECURSIVE argChildren(_)
argChildren(values) ==
  IF values = <<>> THEN <<>>
  ELSE LET value == Head(values)
       IN (IF value.tag = "expr" THEN <<value.node>>
           ELSE IF value.tag = "list" THEN listChildren(value.items)
           ELSE <<>>) \o argChildren(Tail(values))

RECURSIVE argChildrenNoLists(_)
argChildrenNoLists(values) ==
  IF values = <<>> THEN <<>>
  ELSE (IF Head(values).tag = "expr" THEN <<Head(values).node>> ELSE <<>>)
         \o argChildrenNoLists(Tail(values))

(* children as a version that forgets the list-valued arguments would be. *)
childrenNoLists(T, node) ==
  IF ~T.isExpr THEN <<>> ELSE argChildrenNoLists(T.args[node])

children(T, node) ==
  IF ~T.isExpr THEN <<>> ELSE argChildren(T.args[node])

(* delete as a version that charges two for a deletion would be. *)
deleteCostsTwo(T, node) == 2

delete(T, node) == 1

_get_label(T, node) == T.cls[node]

(* rename as a version that never looks at the labels would be. *)
renameAlwaysOne(T1, node1, T2, node2) == 1

(* insert as a version that charges nothing for an insertion would be. *)
insertIsFree(T, node) == 0

insert(T, node) == 1

(* rename as a version that compares the nodes' positions, not their        *)
(* labels, would be.                                                        *)
renameByPosition(T1, node1, T2, node2) == IF node1 = node2 THEN 0 ELSE 1

rename(T1, node1, T2, node2) ==
  LET label1 == _get_label(T1, node1)
      label2 == _get_label(T2, node2)
  IN IF label1 = label2 THEN 0 ELSE 1

RECURSIVE tree_size(_, _)
RECURSIVE sizes(_, _)
sizes(T, kids) ==
  IF kids = <<>> THEN 0 ELSE tree_size(T, Head(kids)) + sizes(T, Tail(kids))

tree_size(T, node) == 1 + sizes(T, children(T, node))

----------------------------------------------------------------------------
(* APTED(tree1, tree2, config): the alignment engine.  It reads the trees   *)
(* only through config.children and prices edits only through               *)
(* config.delete, config.insert and config.rename.  Nodes are indexed in    *)
(* postorder; lld is the postorder index of a node's leftmost leaf.         *)

RECURSIVE postOrder(_, _)
RECURSIVE postForest(_, _)
postForest(T, kids) ==
  IF kids = <<>> THEN <<>>
  ELSE postOrder(T, Head(kids)) \o postForest(T, Tail(kids))

postOrder(T, node) == postForest(T, children(T, node)) \o <<node>>

(* post[k] - the node of postorder index k - to the postorder index of the  *)
(* leftmost leaf under it.                                                  *)
RECURSIVE leftmostLeaves(_, _, _)
leftmostLeaves(T, post, k) ==
  IF k = 0 THEN <<>>
  ELSE Append(leftmostLeaves(T, post, k - 1), k - tree_size(T, post[k]) + 1)

(* The two input trees of one APTED object, indexed. *)
Indexed(T1, T2) ==
  LET p1 == postOrder(T1, 1)
      p2 == postOrder(T2, 1)
  IN [t1 |-> T1, post1 |-> p1, lld1 |-> leftmostLeaves(T1, p1, Len(p1)),
      t2 |-> T2, post2 |-> p2, lld2 |-> leftmostLeaves(T2, p2, Len(p2))]

lld1(A, i) == A.lld1[i]

lld2(A, j) == A.lld2[j]

Min3(a, b, c) == Min2(a, Min2(b, c))

(* The table of distances between the forests post1[l1..i] and              *)
(* post2[l2..j], i in l1-1..k1 and j in l2-1..k2, as rows of cells: delete  *)
(* the last root on the left, insert the last root on the right, or align   *)
(* the two last roots and align their child forests (delta, memoized) and   *)
(* the forests to their left.  rows are the rows before row i, acc the      *)
(* cells of row i before column j.                                          *)
forestCell(A, delta, l1, l2, rows, acc, i, j) ==
  IF i = l1 - 1
    THEN IF j = l2 - 1 THEN 0
         ELSE acc[Len(acc)] + insert(A.t2, A.post2[j])
  ELSE IF j = l2 - 1
    THEN rows[Len(rows)][1] + delete(A.t1, A.post1[i])
  ELSE Min3(rows[Len(rows)][j - l2 + 2] + delete(A.t1, A.post1[i]),
            acc[Len(acc)] + insert(A.t2, A.post2[j]),
            rows[lld1(A, i) - l1 + 1][lld2(A, j) - l2 + 1]
              + delta[i][j]
              + rename(A.t1, A.post1[i], A.t2, A.post2[j]))

RECURSIVE forestRow(_, _, _, _, _, _, _, _, _)
forestRow(A, delta, l1, l2, k2, rows, acc, i, j) ==
  IF j > k2 THEN acc
  ELSE forestRow(A, delta, l1, l2, k2, rows,
                 Append(acc, forestCell(A, delta, l1, l2, rows, acc, i, j)),
                 i, j + 1)

RECURSIVE forestRows(_, _, _, _, _, _, _, _)
forestRows(A, delta, l1, k1, l2, k2, rows, i) ==
  IF i > k1 THEN rows
  ELSE forestRows(A, delta, l1, k1, l2, k2,
                  Append(rows, forestRow(A, delta, l1, l2, k2, rows, <<>>,
                                         i, l2 - 1)),
                  i + 1)

forestDist(A, delta, l1, k1, l2, k2) ==
  forestRows(A, delta, l1, k1, l2, k2, <<>>, l1 - 1)

(* The last cell of a table: the distance between the two whole forests. *)
lastCell(table) == table[Len(table)][Len(table[Len(table)])]

(* delta[i][j]: the distance between the child forests of the nodes of      *)
(* postorder index i and j, filled in postorder.                            *)
RECURSIVE deltaRow(_, _, _, _, _)
deltaRow(A, delta, acc, i, j) ==
  IF j > Len(A.post2) THEN acc
  ELSE deltaRow(A, delta,
                Append(acc, lastCell(forestDist(A, delta, lld1(A, i), i - 1,
                                                lld2(A, j), j - 1))),
                i, j + 1)

RECURSIVE deltaRows(_, _)
deltaRows(A, i) ==
  IF i = 0 THEN <<>>
  ELSE LET delta == deltaRows(A, i - 1)
       IN Append(delta, deltaRow(A, delta, <<>>, i, 1))

(* APTED(tree1, tree2, config) after compute_edit_distance. *)
APTED(T1, T2) ==
  LET A == Indexed(T1, T2)
  IN [t1 |-> A.t1, post1 |-> A.post1, lld1 |-> A.lld1,
      t2 |-> A.t2, post2 |-> A.post2, lld2 |-> A.lld2,
      delta |-> deltaRows(A, Len(A.post1))]

compute_edit_distance(A) ==
  lastCell(forestDist(A, A.delta, 1, Len(A.post1), 1, Len(A.post2)))

(* The trace back through the forest distances F of the subtree pair        *)
(* (lastRow, lastCol).  pairs is the stack of subtree pairs still to be     *)
(* traced, em the edit mapping in postorder indices, built from the back.   *)
RECURSIVE traceBack(_, _, _, _, _, _, _, _)
traceBack(A, F, lastRow, lastCol, row, col, pairs, em) ==
  LET firstRow == lld1(A, lastRow) - 1
      firstCol == lld2(A, lastCol) - 1
      f(r, c) == F[r - firstRow + 1][c - firstCol + 1]
  IN IF row > firstRow \/ col > firstCol
       THEN IF row > firstRow
                 /\ f(row - 1, col) + delete(A.t1, A.post1[row]) = f(row, col)
              THEN traceBack(A, F, lastRow, lastCol, row - 1, col, pairs,
                             <<<<row, 0>>>> \o em)
            ELSE IF col > firstCol
                 /\ f(row, col - 1) + insert(A.t2, A.post2[col]) = f(row, col)
              THEN traceBack(A, F, lastRow, lastCol, row, col - 1, pairs,
                             <<<<0, col>>>> \o em)
            ELSE IF lld1(A, row) = lld1(A, lastRow)
                 /\ lld2(A, col) = lld2(A, lastCol)
              THEN traceBack(A, F, lastRow, lastCol, row - 1, col - 1, pairs,
                             <<<<row, col>>>> \o em)
            ELSE traceBack(A, F, lastRow, lastCol, lld1(A, row) - 1,
                           lld2(A, col) - 1, <<<<row, col>>>> \o pairs, em)
     ELSE IF pairs = <<>> THEN em
     ELSE LET r == Head(pairs)[1]
              c == Head(pairs)[2]
          IN traceBack(A, forestDist(A, A.delta, lld1(A, r), r, lld2(A, c), c),
                       r, c, r, c, Tail(pairs), em)

compute_edit_mapping(A) ==
  LET size1 == Len(A.post1)
      size2 == Len(A.post2)
      em == traceBack(A, forestDist(A, A.delta, 1, size1, 1, size2),
                      size1, size2, size1, size2, <<>>, <<>>)
  IN [k \in 1..Len(em) |->
        <<IF em[k][1] = 0 THEN 0 ELSE A.post1[em[k][1]],
          IF em[k][2] = 0 THEN 0 ELSE A.post2[em[k][2]]>>]

----------------------------------------------------------------------------
(* comparator.py *)

(* compute_distance as a version that pairs the nodes of the two trees by   *)
(* their position would be.                                                 *)
computeDistanceByPosition(T1, T2) ==
  [distance |-> compute_edit_distance(APTED(T1, T2)),
   mapping |-> [k \in 1..Max2(T1.n, T2.n) |->
                  <<IF k <= T1.n THEN k ELSE 0, IF k <= T2.n THEN k ELSE 0>>]]

compute_distance(T1, T2) ==
  LET apted == APTED(T1, T2)
  IN [distance |-> compute_edit_distance(apted),
      mapping |-> compute_edit_mapping(apted)]

(* A float that is a ratio of integers is kept as that ratio; den = 0 is    *)
(* the ZeroDivisionError raised by a division by zero.                      *)
Ratio(n, d) == [num |-> n, den |-> d]

ZeroDivisionError == Ratio(0, 0)

raised(x) == x.den = 0

TrueDiv(a, b) == IF b = 0 THEN ZeroDivisionError ELSE Ratio(a, b)

FloatSub(x, y) ==
  IF raised(x) \/ raised(y) THEN ZeroDivisionError
  ELSE Ratio(x.num * y.den - y.num * x.den, x.den * y.den)

FloatEq(x, y) == ~raised(x) /\ ~raised(y) /\ x.num * y.den = y.num * x.den

FloatLe(x, y) == ~raised(x) /\ ~raised(y) /\ x.num * y.den <= y.num * x.den

(* compute_score as versions with a floor division, without the guard for  *)
(* two empty trees, and without the "1 -" would be.                         *)
computeScoreFloorDiv(dist, size1, size2) ==
  LET max_size == Max2(size1, size2)
  IN IF max_size = 0 THEN Ratio(1, 1)
     ELSE FloatSub(Ratio(1, 1), Ratio(dist \div max_size, 1))

computeScoreNoGuard(dist, size1, size2) ==
  FloatSub(Ratio(1, 1), TrueDiv(dist, Max2(size1, size2)))

computeScoreNoComplement(dist, size1, size2) ==
  LET max_size == Max2(size1, size2)
  IN IF max_size = 0 THEN Ratio(1, 1) ELSE TrueDiv(dist, max_size)

compute_score(dist, size1, size2) ==
  LET max_size == Max2(size1, size2)
  IN IF max_size = 0 THEN Ratio(1, 1)
     ELSE FloatSub(Ratio(1, 1), TrueDiv(dist, max_size))

_get_node_type(T, node) ==
  IF _get_label(T, node) \in {"Literal", "Identifier"} THEN "terminal" ELSE "rule"

(* The labels from the node up to the root, following node.parent. *)
RECURSIVE pathParts(_, _)
pathParts(T, current) ==
  IF current = 0 THEN <<>>
  ELSE <<_get_label(T, current)>> \o pathParts(T, T.parent[current])

RECURSIVE Reverse(_)
Reverse(s) == IF s = <<>> THEN <<>> ELSE Append(Reverse(Tail(s)), Head(s))

RECURSIVE Join(_, _)
Join(sep, parts) ==
  IF parts = <<>> THEN ""
  ELSE IF Len(parts) = 1 THEN parts[1]
  ELSE parts[1] \o sep \o Join(sep, Tail(parts))

(* _get_tree_path as a version that keeps the node itself at the end of    *)
(* the path would be.                                                       *)
getTreePathWithSelf(T, node) == Join(" > ", Reverse(pathParts(T, node)))

_get_tree_path(T, node) ==
  LET path_parts == Reverse(pathParts(T, node))
  IN IF Len(path_parts) > 1
       THEN Join(" > ", SubSeq(path_parts, 1, Len(path_parts) - 1))
       ELSE ""

EditOperation(type, source_node, target_node, node_type, tree_path) ==
  [type |-> type, source_node |-> source_node, target_node |-> target_node,
   node_type |-> node_type, tree_path |-> tree_path]

(* interpretEntry as a version that takes every pair of nodes for a match   *)
(* would be.                                                                *)
interpretEntryAllMatch(T1, T2, node1, node2) ==
  IF node1 = 0
    THEN EditOperation("insert", None, _get_label(T2, node2),
                       _get_node_type(T2, node2), _get_tree_path(T2, node2))
  ELSE IF node2 = 0
    THEN EditOperation("delete", _get_label(T1, node1), None,
                       _get_node_type(T1, node1), _get_tree_path(T1, node1))
  ELSE EditOperation("match", _get_label(T1, node1), _get_label(T2, node2),
                     _get_node_type(T1, node1), _get_tree_path(T1, node1))

(* interpretEntry as a version that reports an inserted node as deleted     *)
(* would be.                                                                *)
interpretEntryInsertAsDelete(T1, T2, node1, node2) ==
  IF node1 = 0
    THEN EditOperation("delete", None, _get_label(T2, node2),
                       _get_node_type(T2, node2), _get_tree_path(T2, node2))
  ELSE IF node2 = 0
    THEN EditOperation("delete", _get_label(T1, node1), None,
                       _get_node_type(T1, node1), _get_tree_path(T1, node1))
  ELSE LET label1 == _get_label(T1, node1)
           label2 == _get_label(T2, node2)
       IN EditOperation(IF label1 = label2 THEN "match" ELSE "rename",
                        label1, label2,
                        _get_node_type(T1, node1), _get_tree_path(T1, node1))

(* interpretEntry as a version that files the label of an inserted node     *)
(* under source_node would be.                                              *)
interpretEntryInsertAsSource(T1, T2, node1, node2) ==
  IF node1 = 0
    THEN EditOperation("insert", _get_label(T2, node2), None,
                       _get_node_type(T2, node2), _get_tree_path(T2, node2))
  ELSE IF node2 = 0
    THEN EditOperation("delete", _get_label(T1, node1), None,
                       _get_node_type(T1, node1), _get_tree_path(T1, node1))
  ELSE LET label1 == _get_label(T1, node1)
           label2 == _get_label(T2, node2)
       IN EditOperation(IF label1 = label2 THEN "match" ELSE "rename",
                        label1, label2,
                        _get_node_type(T1, node1), _get_tree_path(T1, node1))

(* One mapping entry to its operation; node 0 is None. *)
interpretEntry(T1, T2, node1, node2) ==
  IF node1 = 0
    THEN EditOperation("insert", None, _get_label(T2, node2),
                       _get_node_type(T2, node2), _get_tree_path(T2, node2))
  ELSE IF node2 = 0
    THEN EditOperation("delete", _get_label(T1, node1), None,
                       _get_node_type(T1, node1), _get_tree_path(T1, node1))
  ELSE LET label1 == _get_label(T1, node1)
           label2 == _get_label(T2, node2)
       IN EditOperation(IF label1 = label2 THEN "match" ELSE "rename",
                        label1, label2,
                        _get_node_type(T1, node1), _get_tree_path(T1, node1))

(* interpret_mapping as a version that walks the mapping from its last      *)
(* entry to its first would be.                                             *)
interpretMappingReversed(T1, T2, m) ==
  [k \in 1..Len(m) |->
     interpretEntry(T1, T2, m[Len(m) + 1 - k][1], m[Len(m) + 1 - k][2])]

interpret_mapping(T1, T2, m) ==
  [k \in 1..Len(m) |-> interpretEntry(T1, T2, m[k][1], m[k][2])]

----------------------------------------------------------------------------
(* The values of the variables of a part of the program that does not run. *)

treeIdle ==
  /\ tree1 = MkTree(<<0>>, <<"Select">>)
  /\ tree2 = MkTree(<<0>>, <<"Select">>)
  /\ pc = "idle"
  /\ distance = 0
  /\ mapping = <<>>
  /\ operations = <<>>
  /\ score = Ratio(0, 1)

scoreIdle ==
  /\ sDistance = 0 /\ sSize1 = 0 /\ sSize2 = 0 /\ sPc = "idle"
  /\ sScore = Ratio(0, 1)

batchIdle ==
  /\ directory = <<>>
  /\ bPc = "idle"
  /\ batchResult = Nothing

controllerIdle ==
  /\ args = [max_edits |-> Nothing, top |-> Nothing, json |-> FALSE,
             csv |-> FALSE]
  /\ dirExists = FALSE
  /\ cPc = "idle"
  /\ cResult = Nothing
  /\ filtered_comparisons = <<>>
  /\ output = Nothing
  /\ exit_code = Nothing

filterIdle ==
  /\ fComparisons = <<>>
  /\ fMax = 0
  /\ fTop = 0
  /\ fPc = "idle"
  /\ fResult = <<>>

structIdle ==
  /\ tStruct = [n |-> 1, cls |-> <<"Select">>, kids |-> <<<<>>>>,
                parent |-> <<0>>]
  /\ tOp = "none"
  /\ tNode = 1
  /\ tPc = "idle"
  /\ tStack = <<>>
  /\ tCurrent = 0
  /\ tPathParts = <<>>
  /\ tResult = Nothing
  /\ tException = Nothing

pairIdle ==
  /\ pArgs = [path2 |-> Nothing, json |-> FALSE]
  /\ pFile1 = [kind |-> "missing", text |-> ""]
  /\ pFile2 = [kind |-> "missing", text |-> ""]
  /\ pPc = "idle"
  /\ pStdout = Nothing
  /\ pStderr = Nothing
  /\ pExit = Nothing
  /\ pException = Nothing

----------------------------------------------------------------------------
(* The comparison of one pair of trees, one function at a time. *)

Init ==
  /\ tree1 \in Trees
  /\ tree2 \in Trees
  /\ pc = "parsed"
  /\ distance = 0
  /\ mapping = <<>>
  /\ operations = <<>>
  /\ score = Ratio(0, 1)
  /\ sDistance = 0 /\ sSize1 = 0 /\ sSize2 = 0 /\ sPc = "idle"
  /\ sScore = Ratio(0, 1)
  /\ batchIdle /\ controllerIdle /\ filterIdle
  /\ pairIdle /\ structIdle

ComputeDistance ==
  /\ pc = "parsed"
  /\ pc' = "aligned"
  /\ LET result == compute_distance(tree1, tree2)
     IN /\ distance' = result.distance
        /\ mapping' = result.mapping
  /\ UNCHANGED <<pairVars, structVars>>
  /\ UNCHANGED <<tree1, tree2, operations, score, scoreVars, batchVars,
                 controllerVars, filterVars>>

InterpretMapping ==
  /\ pc = "aligned"
  /\ pc' = "interpreted"
  /\ operations' = interpret_mapping(tree1, tree2, mapping)
  /\ UNCHANGED <<pairVars, structVars>>
  /\ UNCHANGED <<tree1, tree2, distance, mapping, score, scoreVars,
                 batchVars, controllerVars, filterVars>>

ComputeScore ==
  /\ pc = "interpreted"
  /\ pc' = "scored"
  /\ score' = compute_score(distance, tree_size(tree1, 1), tree_size(tree2, 1))
  /\ UNCHANGED <<pairVars, structVars>>
  /\ UNCHANGED <<tree1, tree2, distance, mapping, operations, scoreVars,
                 batchVars, controllerVars, filterVars>>

Next == ComputeDistance \/ InterpretMapping \/ ComputeScore

Spec == Init /\ [][Next]_vars

----------------------------------------------------------------------------
(* The comparison of a tree with a copy of itself in which the text of one  *)
(* Identifier leaf is another (SELECT id ... against SELECT name ...).  The *)
(* text of an Identifier is its argument this, a str.                       *)

StrArg(text) == [tag |-> "other", value |-> text]

IdentifierTexts == {"id", "name", "users"}

IdentifierLeaves(T) ==
  {i \in 1..T.n : T.cls[i] = "Identifier" /\ children(T, i) = <<>>}

(* T with the text of its Identifier node i set. *)
WithText(T, i, text) ==
  [T EXCEPT !.args[i] = <<StrArg(text)>> \o Tail(T.args[i])]

IdentifierInit ==
  /\ \E T \in Trees : \E i \in IdentifierLeaves(T) :
     \E text1, text2 \in IdentifierTexts :
       /\ text1 # text2
       /\ tree1 = WithText(T, i, text1)
       /\ tree2 = WithText(T, i, text2)
  /\ pc = "parsed"
  /\ distance = 0
  /\ mapping = <<>>
  /\ operations = <<>>
  /\ score = Ratio(0, 1)
  /\ scoreIdle /\ batchIdle /\ controllerIdle /\ filterIdle
  /\ pairIdle /\ structIdle

IdentifierSpec == IdentifierInit /\ [][Next]_vars

----------------------------------------------------------------------------
(* compute_score on its own, over every distance and pair of sizes. *)

ScoreInit ==
  /\ sDistance \in 0..MaxArg
  /\ sSize1 \in 0..MaxArg
  /\ sSize2 \in 0..MaxArg
  /\ sPc = "call"
  /\ sScore = Ratio(0, 1)
  /\ tree1 = MkTree(<<0>>, <<"Select">>)
  /\ tree2 = MkTree(<<0>>, <<"Select">>)
  /\ pc = "idle"
  /\ distance = 0
  /\ mapping = <<>>
  /\ operations = <<>>
  /\ score = Ratio(0, 1)
  /\ batchIdle /\ controllerIdle /\ filterIdle
  /\ pairIdle /\ structIdle

CallComputeScore ==
  /\ sPc = "call"
  /\ sPc' = "returned"
  /\ sScore' = compute_score(sDistance, sSize1, sSize2)
  /\ UNCHANGED <<pairVars, structVars>>
  /\ UNCHANGED <<sDistance, sSize1, sSize2, treeVars, batchVars,
                 controllerVars, filterVars>>

ScoreNext == CallComputeScore

ScoreSpec == ScoreInit /\ [][ScoreNext]_vars

----------------------------------------------------------------------------
(* File names and Python's str.  A file name is the tuple of its            *)
(* characters; ord gives the code point of a character, str < str compares  *)
(* code point by code point, and a proper prefix is the smaller.            *)

ord ==
  [c \in {".", "B", "L", "Q", "S", "a", "b", "c", "l", "q", "s", "t", "x"} |->
     CASE c = "." -> 46 [] c = "B" -> 66 [] c = "L" -> 76 [] c = "Q" -> 81
       [] c = "S" -> 83 [] c = "a" -> 97 [] c = "b" -> 98 [] c = "c" -> 99
       [] c = "l" -> 108 [] c = "q" -> 113 [] c = "s" -> 115
       [] c = "t" -> 116 [] c = "x" -> 120]

RECURSIVE StrLess(_, _)
StrLess(s, t) ==
  IF t = <<>> THEN FALSE
  ELSE IF s = <<>> THEN TRUE
  ELSE IF ord[Head(s)] # ord[Head(t)] THEN ord[Head(s)] < ord[Head(t)]
  ELSE StrLess(Tail(s), Tail(t))

(* str.lower() *)
lower(s) ==
  [i \in 1..Len(s) |->
     CASE s[i] = "B" -> "b" [] s[i] = "L" -> "l" [] s[i] = "Q" -> "q"
       [] s[i] = "S" -> "s" [] OTHER -> s[i]]

(* Path.suffix: the name from its last dot on, when that dot is neither     *)
(* the first nor the last character.                                        *)
suffix(name) ==
  LET dots == {i \in 1..Len(name) : name[i] = "."}
  IN IF dots = {} THEN <<>>
     ELSE LET i == CHOOSE d \in dots : \A e \in dots : e <= d
          IN IF i > 1 /\ i < Len(name) THEN SubSeq(name, i, Len(name))
             ELSE <<>>

(* insertion of x into a sorted list, behind the elements equal to it *)
RECURSIVE insertSorted(_, _)
insertSorted(s, x) ==
  IF s = <<>> THEN <<x>>
  ELSE IF StrLess(x, Head(s)) THEN <<x>> \o s
  ELSE <<Head(s)>> \o insertSorted(Tail(s), x)

(* sorted() on a list of str *)
RECURSIVE sorted(_)
sorted(s) ==
  IF s = <<>> THEN <<>>
  ELSE insertSorted(sorted(SubSeq(s, 1, Len(s) - 1)), s[Len(s)])

----------------------------------------------------------------------------
(* The documents.  The text of a file is one of four texts; the parser      *)
(* makes a tree of three of them and raises ParseError on the fourth.       *)

SqlTexts == {"", "SELECT", "x", "SELECT x x"}

ParseError(message) == [raised |-> TRUE, message |-> message, tree |-> <<>>]

parse_sql(sql_text) ==
  IF sql_text = "" THEN ParseError("line 1:0 mismatched input '<EOF>'")
  ELSE [raised |-> FALSE, message |-> "",
        tree |-> CASE sql_text = "SELECT" -> MkTree(<<0>>, <<"Select">>)
                   [] sql_text = "x" -> MkTree(<<0>>, <<"Identifier">>)
                   [] sql_text = "SELECT x x" ->
                        MkTree(<<0, 1, 1>>,
                               <<"Select", "Identifier", "Identifier">>)]

(* The names a directory entry can have. *)
EntryNames ==
  {<<"a", ".", "s", "q", "l">>, <<"B", ".", "S", "Q", "L">>,
   <<"b", ".", "s", "q", "l">>, <<"c", ".", "t", "x", "t">>}

(* An entry of a directory: a file with a text, or a subdirectory. *)
Entries ==
  [name : EntryNames \ {<<"c", ".", "t", "x", "t">>}, is_file : {TRUE},
   text : SqlTexts]
    \cup [name : {<<"c", ".", "t", "x", "t">>}, is_file : {TRUE},
          text : {"SELECT"}]
    \cup [name : {<<"b", ".", "s", "q", "l">>}, is_file : {FALSE},
          text : {""}]

(* What Path.iterdir() yields: the entries in some order, no name twice. *)
RECURSIVE ListingsOver(_)
ListingsOver(names) ==
  {<<>>} \cup
  UNION {{<<e>> \o rest : rest \in ListingsOver(names \ {e.name})} :
           e \in {x \in Entries : x.name \in names}}

Listings == ListingsOver(EntryNames)

----------------------------------------------------------------------------
(* service/batch.py *)

FileError(file, error) == [file |-> file, error |-> error]

PairComparison(file1, file2, dist, ops) ==
  [file1 |-> file1, file2 |-> file2, distance |-> dist, operations |-> ops]

BatchComparisonResult(dir, files, comparisons, errors) ==
  [directory |-> dir, files |-> files, comparisons |-> comparisons,
   errors |-> errors]

(* str(directory) *)
DirectoryPath == "queries"

(* scan_directory as a version that returns the names in the order of the   *)
(* listing would be.                                                        *)
scanDirectoryUnsorted(listing) ==
  LET sql_files ==
        SelectSeq(listing,
                  LAMBDA e : e.is_file
                             /\ lower(suffix(e.name)) = <<".", "s", "q", "l">>)
  IN [i \in 1..Len(sql_files) |-> sql_files[i].name]

scan_directory(listing) ==
  LET sql_files ==
        SelectSeq(listing,
                  LAMBDA e : e.is_file
                             /\ lower(suffix(e.name)) = <<".", "s", "q", "l">>)
  IN sorted([i \in 1..Len(sql_files) |-> sql_files[i].name])

(* file_path.read_text() *)
read_text(listing, filename) ==
  LET i == CHOOSE k \in 1..Len(listing) : listing[k].name = filename
  IN listing[i].text

(* The parsing loop as a version that gives up at the first ParseError      *)
(* would be.                                                                *)
RECURSIVE parseFilesStopAtError(_, _, _, _)
parseFilesStopAtError(listing, files, parsed_trees, errors) ==
  IF files = <<>> THEN [parsed_trees |-> parsed_trees, errors |-> errors]
  ELSE LET filename == Head(files)
           parsed == parse_sql(read_text(listing, filename))
       IN IF parsed.raised
            THEN [parsed_trees |-> parsed_trees,
                  errors |-> Append(errors,
                                    FileError(filename, parsed.message))]
            ELSE parseFilesStopAtError(listing, Tail(files),
                            Append(parsed_trees, <<filename, parsed.tree>>),
                            errors)

(* The parsing loop: parsed_trees is the dict as the list of its items in   *)
(* insertion order.                                                         *)
RECURSIVE parseFiles(_, _, _, _)
parseFiles(listing, files, parsed_trees, errors) ==
  IF files = <<>> THEN [parsed_trees |-> parsed_trees, errors |-> errors]
  ELSE LET filename == Head(files)
           parsed == parse_sql(read_text(listing, filename))
       IN IF parsed.raised
            THEN parseFiles(listing, Tail(files), parsed_trees,
                            Append(errors,
                                   FileError(filename, parsed.message)))
            ELSE parseFiles(listing, Tail(files),
                            Append(parsed_trees, <<filename, parsed.tree>>),
                            errors)

(* parsed_trees[filename] *)
treeOf(parsed_trees, filename) ==
  LET i == CHOOSE k \in 1..Len(parsed_trees) : parsed_trees[k][1] = filename
  IN parsed_trees[i][2]

(* combinations as a version that pairs each element with its successor     *)
(* only would be.                                                           *)
combinationsAdjacent(s) ==
  [i \in 1..(IF Len(s) < 2 THEN 0 ELSE Len(s) - 1) |-> <<s[i], s[i + 1]>>]

(* itertools.combinations(s, 2) *)
RECURSIVE combinations(_)
combinations(s) ==
  IF Len(s) < 2 THEN <<>>
  ELSE [j \in 1..(Len(s) - 1) |-> <<s[1], s[j + 1]>>]
         \o combinations(Tail(s))

(* The body of the loop over the pairs. *)
comparePair(parsed_trees, file1, file2) ==
  LET t1 == treeOf(parsed_trees, file1)
      t2 == treeOf(parsed_trees, file2)
      aligned == compute_distance(t1, t2)
  IN PairComparison(file1, file2, aligned.distance,
                    interpret_mapping(t1, t2, aligned.mapping))

RECURSIVE insertByDistance(_, _)
insertByDistance(s, c) ==
  IF s = <<>> THEN <<c>>
  ELSE IF c.distance < Head(s).distance THEN <<c>> \o s
  ELSE <<Head(s)>> \o insertByDistance(Tail(s), c)

(* comparisons.sort as a version that puts the largest distance first       *)
(* would be.                                                                *)
RECURSIVE sortByDistanceDescending(_)
sortByDistanceDescending(s) ==
  IF s = <<>> THEN <<>>
  ELSE LET rest == sortByDistanceDescending(Tail(s))
           before == SelectSeq(rest, LAMBDA c : c.distance > Head(s).distance)
           after == SelectSeq(rest, LAMBDA c : c.distance <= Head(s).distance)
       IN before \o <<Head(s)>> \o after

(* comparisons.sort(key=lambda c: c.distance): a stable sort *)
RECURSIVE sortByDistance(_)
sortByDistance(s) ==
  IF s = <<>> THEN <<>>
  ELSE insertByDistance(sortByDistance(SubSeq(s, 1, Len(s) - 1)), s[Len(s)])

compare_all_pairs(listing) ==
  LET files == scan_directory(listing)
      parsed == parseFiles(listing, files, <<>>, <<>>)
      valid_files == [i \in 1..Len(parsed.parsed_trees) |->
                        parsed.parsed_trees[i][1]]
      pairs == combinations(sorted(valid_files))
      comparisons == [i \in 1..Len(pairs) |->
                        comparePair(parsed.parsed_trees,
                                    pairs[i][1], pairs[i][2])]
  IN BatchComparisonResult(DirectoryPath, files, sortByDistance(comparisons),
                           parsed.errors)

(* filter_by_max_distance as a version with a strict threshold would be. *)
filterByMaxDistanceStrict(comparisons, max_distance) ==
  SelectSeq(comparisons, LAMBDA c : c.distance < max_distance)

filter_by_max_distance(comparisons, max_distance) ==
  SelectSeq(comparisons, LAMBDA c : c.distance <= max_distance)

(* The slice s[:stop] of a list. *)
sliceTo(s, stop) ==
  IF stop >= 0 THEN SubSeq(s, 1, Min2(stop, Len(s)))
  ELSE SubSeq(s, 1, Max2(Len(s) + stop, 0))

(* filter_by_top as a version that keeps the last entries would be. *)
filterByTopLast(comparisons, top) ==
  SubSeq(comparisons, Max2(Len(comparisons) - top, 0) + 1, Len(comparisons))

filter_by_top(comparisons, top) == sliceTo(comparisons, top)

(* The threshold filter under the name the controller imports it by. *)
filter_by_max_edits(comparisons, max_edits) ==
  SelectSeq(comparisons, LAMBDA c : c.distance <= max_edits)

----------------------------------------------------------------------------
(* presentation/exit_codes.py and presentation/controllers/batch.py *)

BATCH_SUCCESS == 0

BATCH_PARTIAL == 1

BATCH_NO_FILES == 2

BATCH_DIR_NOT_FOUND == 3

BATCH_INVALID_ARGS == 4

(* The validation as a version that lets --top 0 through would be. *)
invalidArgsTopZeroAllowed(max_edits, top) ==
  \/ max_edits # Nothing /\ max_edits[1] < 0
  \/ top # Nothing /\ top[1] < 0

(* The two tests on the filter arguments at the head of execute. *)
invalidArgs(max_edits, top) ==
  \/ max_edits # Nothing /\ max_edits[1] < 0
  \/ top # Nothing /\ top[1] < 1

(* The choice of the exit code as a version that reports success whatever  *)
(* the errors would be.                                                     *)
exitCodeAlwaysSuccess(res) == BATCH_SUCCESS

(* The exit code at the end of execute. *)
exitCodeOf(res) == IF res.errors # <<>> THEN BATCH_PARTIAL ELSE BATCH_SUCCESS

(* The filter step as a version that truncates before it thresholds         *)
(* would be.                                                                *)
applyFiltersTopFirst(comparisons, max_edits, top) ==
  LET truncated ==
        IF top # Nothing THEN filter_by_top(comparisons, top[1])
        ELSE comparisons
  IN IF max_edits # Nothing THEN filter_by_max_edits(truncated, max_edits[1])
     ELSE truncated

(* The filter step of execute: max-edits first, then top. *)
applyFilters(comparisons, max_edits, top) ==
  LET thresholded ==
        IF max_edits # Nothing
          THEN filter_by_max_edits(comparisons, max_edits[1])
        ELSE comparisons
  IN IF top # Nothing THEN filter_by_top(thresholded, top[1])
     ELSE thresholded

----------------------------------------------------------------------------
(* compare_all_pairs on every directory listing. *)

BatchInit ==
  /\ directory \in Listings
  /\ bPc = "call"
  /\ batchResult = Nothing
  /\ treeIdle /\ scoreIdle /\ controllerIdle /\ filterIdle
  /\ pairIdle /\ structIdle

CompareAllPairs ==
  /\ bPc = "call"
  /\ bPc' = "returned"
  /\ batchResult' = Some(compare_all_pairs(directory))
  /\ UNCHANGED <<pairVars, structVars>>
  /\ UNCHANGED <<directory, treeVars, scoreVars, controllerVars, filterVars>>

BatchNext == CompareAllPairs

BatchSpec == BatchInit /\ [][BatchNext]_vars

----------------------------------------------------------------------------
(* presentation/batch_formatter.py.  A rendering is the record of what the  *)
(* text shows: the header, the counts of the summary line or of the         *)
(* metadata, one row with the two file names per comparison, the errors.    *)

rowsOf(comparisons) ==
  [i \in 1..Len(comparisons) |->
     [file1 |-> comparisons[i].file1, file2 |-> comparisons[i].file2]]

(* format_batch_table as a version that counts every file, parsed or not,   *)
(* into the possible comparisons would be.                                  *)
formatBatchTableAllFiles(res, max_edits, top) ==
  LET total_files == Len(res.files)
      total_comparisons == Len(res.comparisons)
      total_errors == Len(res.errors)
      valid_files == total_files
      total_possible == IF valid_files > 1
                          THEN (valid_files * (valid_files - 1)) \div 2
                        ELSE 0
      filtered == max_edits # Nothing \/ top # Nothing
  IN [format |-> "table", directory |-> res.directory,
      max_edits |-> max_edits, top |-> top,
      files |-> total_files,
      showing |-> IF filtered THEN Some(total_comparisons) ELSE Nothing,
      of |-> IF filtered THEN Some(total_possible) ELSE Nothing,
      comparisons |-> IF filtered THEN Nothing ELSE Some(total_comparisons),
      errors |-> total_errors,
      rows |-> rowsOf(res.comparisons),
      error_lines |-> res.errors]

format_batch_table(res, max_edits, top) ==
  LET total_files == Len(res.files)
      total_comparisons == Len(res.comparisons)
      total_errors == Len(res.errors)
      valid_files == total_files - total_errors
      total_possible == IF valid_files > 1
                          THEN (valid_files * (valid_files - 1)) \div 2
                        ELSE 0
      filtered == max_edits # Nothing \/ top # Nothing
  IN [format |-> "table", directory |-> res.directory,
      max_edits |-> max_edits, top |-> top,
      files |-> total_files,
      showing |-> IF filtered THEN Some(total_comparisons) ELSE Nothing,
      of |-> IF filtered THEN Some(total_possible) ELSE Nothing,
      comparisons |-> IF filtered THEN Nothing ELSE Some(total_comparisons),
      errors |-> total_errors,
      rows |-> rowsOf(res.comparisons),
      error_lines |-> res.errors]

(* format_batch_json as a version that counts the comparisons of the        *)
(* result it is given for the total would be.                               *)
formatBatchJsonTotalAfterFilter(res, max_edits, top, total_comparisons) ==
  [format |-> "json", directory |-> res.directory,
   total_files |-> Len(res.files),
   total_comparisons |-> Len(res.comparisons),
   rows |-> rowsOf(res.comparisons),
   errors |-> res.errors,
   max_edits_filter |-> max_edits, top_filter |-> top,
   shown_comparisons |->
     IF max_edits # Nothing \/ top # Nothing THEN Some(Len(res.comparisons))
     ELSE Nothing]

format_batch_json(res, max_edits, top, total_comparisons) ==
  [format |-> "json", directory |-> res.directory,
   total_files |-> Len(res.files),
   total_comparisons |-> IF total_comparisons # Nothing
                           THEN total_comparisons[1]
                         ELSE Len(res.comparisons),
   rows |-> rowsOf(res.comparisons),
   errors |-> res.errors,
   max_edits_filter |-> max_edits, top_filter |-> top,
   shown_comparisons |->
     IF max_edits # Nothing \/ top # Nothing THEN Some(Len(res.comparisons))
     ELSE Nothing]

format_batch_csv(res) == [format |-> "csv", rows |-> rowsOf(res.comparisons)]

----------------------------------------------------------------------------
(* BatchController.execute, one step at a time, on a directory that exists  *)
(* or not and with every choice of --max-edits and --top.                   *)

(* The listings in which iterdir yields the entries in order of name. *)
ListingsInNameOrder ==
  {l \in Listings :
     \A i, j \in 1..Len(l) : i < j => StrLess(l[i].name, l[j].name)}

ControllerInit ==
  /\ args \in {a \in [max_edits : {Nothing} \cup
                                      {Some(k) : k \in (-1)..MaxThreshold},
                         top : {Nothing} \cup
                                 {Some(n) : n \in 0..(MaxPairs + 1)},
                         json : BOOLEAN, csv : BOOLEAN] :
                ~(a.json /\ a.csv)}
  /\ dirExists \in BOOLEAN
  /\ directory \in IF dirExists THEN ListingsInNameOrder ELSE {<<>>}
  /\ cPc = "execute"
  /\ cResult = Nothing
  /\ filtered_comparisons = <<>>
  /\ output = Nothing
  /\ exit_code = Nothing
  /\ bPc = "idle"
  /\ batchResult = Nothing
  /\ treeIdle /\ scoreIdle /\ filterIdle
  /\ pairIdle /\ structIdle

ValidateArgs ==
  /\ cPc = "execute"
  /\ IF invalidArgs(args.max_edits, args.top)
       THEN cPc' = "returned" /\ exit_code' = Some(BATCH_INVALID_ARGS)
       ELSE cPc' = "check_directory" /\ UNCHANGED exit_code
  /\ UNCHANGED <<pairVars, structVars>>
  /\ UNCHANGED <<args, dirExists, cResult, filtered_comparisons, output,
                 treeVars, scoreVars, batchVars, filterVars>>

CheckDirectory ==
  /\ cPc = "check_directory"
  /\ IF ~dirExists
       THEN cPc' = "returned" /\ exit_code' = Some(BATCH_DIR_NOT_FOUND)
       ELSE cPc' = "compare" /\ UNCHANGED exit_code
  /\ UNCHANGED <<pairVars, structVars>>
  /\ UNCHANGED <<args, dirExists, cResult, filtered_comparisons, output,
                 treeVars, scoreVars, batchVars, filterVars>>

RunComparison ==
  /\ cPc = "compare"
  /\ LET r == compare_all_pairs(directory)
     IN /\ cResult' = Some(r)
        /\ IF r.files = <<>>
             THEN cPc' = "returned" /\ exit_code' = Some(BATCH_NO_FILES)
             ELSE cPc' = "filter" /\ UNCHANGED exit_code
  /\ UNCHANGED <<pairVars, structVars>>
  /\ UNCHANGED <<args, dirExists, filtered_comparisons, output,
                 treeVars, scoreVars, batchVars, filterVars>>

ApplyFilters ==
  /\ cPc = "filter"
  /\ cPc' = "print"
  /\ filtered_comparisons' =
       applyFilters(cResult[1].comparisons, args.max_edits, args.top)
  /\ UNCHANGED <<pairVars, structVars>>
  /\ UNCHANGED <<args, dirExists, cResult, output, exit_code,
                 treeVars, scoreVars, batchVars, filterVars>>

PrintResult ==
  /\ cPc = "print"
  /\ cPc' = "returned"
  /\ LET filtered_result ==
           BatchComparisonResult(cResult[1].directory, cResult[1].files,
                                 filtered_comparisons, cResult[1].errors)
         total_before_filter == Len(cResult[1].comparisons)
     IN output' =
          Some(IF args.json
                 THEN format_batch_json(filtered_result, args.max_edits,
                                        args.top, Some(total_before_filter))
               ELSE IF args.csv THEN format_batch_csv(filtered_result)
               ELSE format_batch_table(filtered_result, args.max_edits,
                                       args.top))
  /\ exit_code' = Some(exitCodeOf(cResult[1]))
  /\ UNCHANGED <<pairVars, structVars>>
  /\ UNCHANGED <<args, dirExists, cResult, filtered_comparisons,
                 treeVars, scoreVars, batchVars, filterVars>>

ControllerNext ==
  \/ ValidateArgs
  \/ CheckDirectory
  \/ RunComparison
  \/ ApplyFilters
  \/ PrintResult

ControllerSpec == ControllerInit /\ [][ControllerNext]_vars

----------------------------------------------------------------------------
(* The two filters on their own, over every list of comparisons.  The       *)
(* comparison at position i of the list is the i-th pair of files.          *)

pairAt(i) ==
  [file1 |-> <<"a", ".", "s", "q", "l">>,
   file2 |-> [j \in 1..i |-> "b"] \o <<".", "s", "q", "l">>]

ComparisonLists ==
  UNION {{[i \in 1..n |-> PairComparison(pairAt(i).file1, pairAt(i).file2,
                                         d[i], <<>>)] :
            d \in [1..n -> 0..MaxThreshold]} : n \in 0..MaxPairs}

FilterInit ==
  /\ fComparisons \in ComparisonLists
  /\ fMax \in 0..MaxThreshold
  /\ fTop \in (-1)..(MaxPairs + 1)
  /\ fPc = "call"
  /\ fResult = <<>>
  /\ treeIdle /\ scoreIdle /\ batchIdle /\ controllerIdle
  /\ pairIdle /\ structIdle

CallFilterByMaxDistance ==
  /\ fPc = "call"
  /\ fPc' = "max_distance"
  /\ fResult' = filter_by_max_distance(fComparisons, fMax)
  /\ UNCHANGED <<pairVars, structVars>>
  /\ UNCHANGED <<fComparisons, fMax, fTop, treeVars, scoreVars, batchVars,
                 controllerVars>>

CallFilterByTop ==
  /\ fPc = "call"
  /\ fPc' = "top"
  /\ fResult' = filter_by_top(fComparisons, fTop)
  /\ UNCHANGED <<pairVars, structVars>>
  /\ UNCHANGED <<fComparisons, fMax, fTop, treeVars, scoreVars, batchVars,
                 controllerVars>>

CallApplyFilters ==
  /\ fPc = "call"
  /\ fPc' = "filters"
  /\ fResult' = applyFilters(fComparisons, Some(fMax), Some(fTop))
  /\ UNCHANGED <<pairVars, structVars>>
  /\ UNCHANGED <<fComparisons, fMax, fTop, treeVars, scoreVars, batchVars,
                 controllerVars>>

FilterNext == CallFilterByMaxDistance \/ CallFilterByTop \/ CallApplyFilters

FilterSpec == FilterInit /\ [][FilterNext]_vars

----------------------------------------------------------------------------
(* presentation/exit_codes.py, service/comparison.py and                    *)
(* presentation/controllers/pair.py.  A path names nothing, a file with a   *)
(* text, or a directory.                                                    *)

SUCCESS == 0

FILE_NOT_FOUND == 1

PARSE_ERROR == 2

INVALID_ARGS == 3

Paths ==
  [kind : {"file"}, text : SqlTexts]
    \cup [kind : {"missing", "directory"}, text : {""}]

ComparisonResult(dist, ops, sc) ==
  [distance |-> dist, operations |-> ops, score |-> sc]

(* compare_trees(tree1, tree2): alignment, edit script and score. *)
compare_trees(t1, t2) ==
  LET aligned == compute_distance(t1, t2)
  IN ComparisonResult(aligned.distance,
                      interpret_mapping(t1, t2, aligned.mapping),
                      compute_score(aligned.distance, tree_size(t1, 1),
                                    tree_size(t2, 1)))

(* What a call gives: a value, or the exception that leaves it. *)
Returned(value) == [raised |-> "", about |-> "", value |-> <<value>>]

Raised(exception, about) ==
  [raised |-> exception, about |-> about, value |-> <<>>]

(* ComparisonService.compare(file1, file2).  Path.exists() is true of a    *)
(* directory, and Path.read_text() of a directory raises IsADirectoryError. *)
compare(file1, file2) ==
  IF file1.kind = "missing" THEN Raised("FileNotFoundError", "path1")
  ELSE IF file2.kind = "missing" THEN Raised("FileNotFoundError", "path2")
  ELSE IF file1.kind = "directory"
         THEN Raised("IsADirectoryError", "path1")
  ELSE IF file2.kind = "directory"
         THEN Raised("IsADirectoryError", "path2")
  ELSE LET parsed1 == parse_sql(file1.text)
           parsed2 == parse_sql(file2.text)
       IN IF parsed1.raised THEN Raised("SQLParseError", "path1")
          ELSE IF parsed2.raised THEN Raised("SQLParseError", "path2")
          ELSE Returned(compare_trees(parsed1.tree, parsed2.tree))

(* format_json(result) or format_human(result): what the text shows. *)
formatResult(res, json) ==
  [format |-> IF json THEN "json" ELSE "human",
   score |-> res.score,
   edit_count |-> res.distance,
   operations |-> res.operations]

PairInit ==
  /\ pArgs \in [path2 : {Nothing, Some("path2")}, json : BOOLEAN]
  /\ pFile1 \in Paths
  /\ pFile2 \in IF pArgs.path2 = Nothing
                  THEN {[kind |-> "missing", text |-> ""]}
                  ELSE Paths
  /\ pPc = "start"
  /\ pStdout = Nothing
  /\ pStderr = Nothing
  /\ pExit = Nothing
  /\ pException = Nothing
  /\ treeIdle /\ scoreIdle /\ batchIdle /\ controllerIdle /\ filterIdle
  /\ structIdle

(* if args.path2 is None *)
PairCheckArgs ==
  /\ pPc = "start"
  /\ IF pArgs.path2 = Nothing
       THEN /\ pStderr' = Some("Error: Two files required for pair comparison")
            /\ pExit' = Some(INVALID_ARGS)
            /\ pPc' = "returned"
       ELSE /\ pPc' = "compare"
            /\ UNCHANGED <<pStderr, pExit>>
  /\ UNCHANGED <<pArgs, pFile1, pFile2, pStdout, pException>>
  /\ UNCHANGED <<treeVars, scoreVars, batchVars, controllerVars, filterVars,
                 structVars>>

(* The try block and its two handlers; any other exception leaves execute. *)
PairCompare ==
  /\ pPc = "compare"
  /\ LET outcome == compare(pFile1, pFile2)
     IN CASE outcome.raised = "" ->
               /\ pStdout' = Some(formatResult(outcome.value[1], pArgs.json))
               /\ pExit' = Some(SUCCESS)
               /\ pPc' = "returned"
               /\ UNCHANGED <<pStderr, pException>>
          [] outcome.raised = "FileNotFoundError" ->
               /\ pStderr' = Some("Error: File not found: " \o outcome.about)
               /\ pExit' = Some(FILE_NOT_FOUND)
               /\ pPc' = "returned"
               /\ UNCHANGED <<pStdout, pException>>
          [] outcome.raised = "SQLParseError" ->
               /\ pStderr' = Some("Error: Failed to parse " \o outcome.about)
               /\ pExit' = Some(PARSE_ERROR)
               /\ pPc' = "returned"
               /\ UNCHANGED <<pStdout, pException>>
          [] OTHER ->
               /\ pException' = Some(outcome.raised)
               /\ pPc' = "raised"
               /\ UNCHANGED <<pStdout, pStderr, pExit>>
  /\ UNCHANGED <<pArgs, pFile1, pFile2>>
  /\ UNCHANGED <<treeVars, scoreVars, batchVars, controllerVars, filterVars,
                 structVars>>

PairNext == PairCheckArgs \/ PairCompare

PairSpec == PairInit /\ [][PairNext]_vars

----------------------------------------------------------------------------
(* tree_size and _get_tree_path of domain/comparator.py, one step at a      *)
(* time, on structures of nodes that need not be trees.  node.args and      *)
(* node.parent are separate attributes of a node: kids[i] is what           *)
(* config.children(i) gives and parent[i] what i.parent gives (0 is None). *)

(* Largest number of nodes of a structure. *)
MaxStructNodes == 2

(* The depth at which the interpreter raises RecursionError. *)
RecursionLimit == 4

(* The number of labels of path_parts that are kept. *)
MaxPathParts == 3

KidLists(n) ==
  {<<>>} \cup {<<i>> : i \in 1..n}
    \cup {<<i, j>> : <<i, j>> \in {q \in (1..n) \X (1..n) : q[1] # q[2]}}

Structures ==
  UNION {[n : {k}, cls : {[i \in 1..k |-> IF i = 1 THEN "Select"
                                          ELSE "Identifier"]},
          kids : [1..k -> KidLists(k)], parent : [1..k -> 0..k]] :
           k \in 1..MaxStructNodes}

Frame(node) == [node |-> node, next |-> 1, total |-> 0]

StructInit ==
  /\ tStruct \in Structures
  /\ tOp \in {"tree_size", "_get_tree_path"}
  /\ tNode \in 1..tStruct.n
  /\ tPc = "call"
  /\ tStack = <<>>
  /\ tCurrent = 0
  /\ tPathParts = <<>>
  /\ tResult = Nothing
  /\ tException = Nothing
  /\ treeIdle /\ scoreIdle /\ batchIdle /\ controllerIdle /\ filterIdle
  /\ pairIdle

(* tree_size(node) is called. *)
CallTreeSize ==
  /\ tPc = "call" /\ tOp = "tree_size"
  /\ tStack' = <<Frame(tNode)>>
  /\ tPc' = "tree_size"
  /\ UNCHANGED <<tStruct, tOp, tNode, tCurrent, tPathParts, tResult,
                 tException>>
  /\ UNCHANGED <<treeVars, scoreVars, batchVars, controllerVars, filterVars,
                 pairVars>>

(* The call on top of the stack calls tree_size(child) for its next child, *)
(* which raises RecursionError at the recursion limit.                     *)
TreeSizeCallChild ==
  /\ tPc = "tree_size"
  /\ LET frame == tStack[Len(tStack)]
         children_ == tStruct.kids[frame.node]
     IN /\ frame.next <= Len(children_)
        /\ IF Len(tStack) >= RecursionLimit
             THEN /\ tException' = Some("RecursionError")
                  /\ tPc' = "raised"
                  /\ tStack' = <<>>
             ELSE /\ tStack' = Append(tStack, Frame(children_[frame.next]))
                  /\ UNCHANGED <<tException, tPc>>
  /\ UNCHANGED <<tStruct, tOp, tNode, tCurrent, tPathParts, tResult>>
  /\ UNCHANGED <<treeVars, scoreVars, batchVars, controllerVars, filterVars,
                 pairVars>>

(* The call on top of the stack has summed all its children and returns    *)
(* 1 + sum to its caller.                                                   *)
TreeSizeReturn ==
  /\ tPc = "tree_size"
  /\ LET frame == tStack[Len(tStack)]
         value == 1 + frame.total
     IN /\ frame.next > Len(tStruct.kids[frame.node])
        /\ IF Len(tStack) = 1
             THEN /\ tResult' = Some(value)
                  /\ tPc' = "returned"
                  /\ tStack' = <<>>
             ELSE /\ tStack' =
                       [SubSeq(tStack, 1, Len(tStack) - 1)
                          EXCEPT ![Len(tStack) - 1] =
                            [@ EXCEPT !.next = @ + 1, !.total = @ + value]]
                  /\ UNCHANGED <<tResult, tPc>>
  /\ UNCHANGED <<tStruct, tOp, tNode, tCurrent, tPathParts, tException>>
  /\ UNCHANGED <<treeVars, scoreVars, batchVars, controllerVars, filterVars,
                 pairVars>>

(* _get_tree_path(node) is called: path_parts = [], current = node. *)
CallGetTreePath ==
  /\ tPc = "call" /\ tOp = "_get_tree_path"
  /\ tCurrent' = tNode
  /\ tPathParts' = <<>>
  /\ tPc' = "while"
  /\ UNCHANGED <<tStruct, tOp, tNode, tStack, tResult, tException>>
  /\ UNCHANGED <<treeVars, scoreVars, batchVars, controllerVars, filterVars,
                 pairVars>>

(* One turn of while current is not None.  Of a list of more than          *)
(* MaxPathParts labels only those after the last full MaxPathParts are      *)
(* kept; a parent chain that ends is shorter than that.                     *)
GetTreePathLoop ==
  /\ tPc = "while"
  /\ tCurrent # 0
  /\ tPathParts' = IF Len(tPathParts) < MaxPathParts
                     THEN Append(tPathParts, tStruct.cls[tCurrent])
                     ELSE <<tStruct.cls[tCurrent]>>
  /\ tCurrent' = tStruct.parent[tCurrent]
  /\ UNCHANGED <<tStruct, tOp, tNode, tPc, tStack, tResult, tException>>
  /\ UNCHANGED <<treeVars, scoreVars, batchVars, controllerVars, filterVars,
                 pairVars>>

(* The loop is left: the path without the node itself is returned. *)
GetTreePathReturn ==
  /\ tPc = "while"
  /\ tCurrent = 0
  /\ LET path_parts == Reverse(tPathParts)
     IN tResult' = Some(IF Len(path_parts) > 1
                          THEN Join(" > ", SubSeq(path_parts, 1,
                                                  Len(path_parts) - 1))
                          ELSE "")
  /\ tPc' = "returned"
  /\ UNCHANGED <<tStruct, tOp, tNode, tStack, tCurrent, tPathParts,
                 tException>>
  /\ UNCHANGED <<treeVars, scoreVars, batchVars, controllerVars, filterVars,
                 pairVars>>

StructNext ==
  \/ CallTreeSize \/ TreeSizeCallChild \/ TreeSizeReturn
  \/ CallGetTreePath \/ GetTreePathLoop \/ GetTreePathReturn

(* The interpreter keeps running the call until it returns or raises. *)
StructSpec == StructInit /\ [][StructNext]_vars /\ WF_vars(StructNext)

----------------------------------------------------------------------------
(* What the properties speak of, read off the trees themselves: the nodes,  *)
(* the ancestor relation along node.parent, the left-to-right order and     *)
(* the edit mappings between two trees.                                     *)

Nodes(T) == 1..T.n

RECURSIVE Ancestors(_, _)
Ancestors(T, b) ==
  IF T.parent[b] = 0 THEN {}
  ELSE {T.parent[b]} \cup Ancestors(T, T.parent[b])

IsAncestor(T, a, b) == a \in Ancestors(T, b)

(* a comes before b and b is not below a. *)
IsLeftOf(T, a, b) == a < b /\ ~IsAncestor(T, a, b)

(* An edit mapping as a function from the nodes of T1 to the nodes of T2    *)
(* or 0: one-to-one, ancestor-preserving, sibling-order-preserving.         *)
IsEditMapping(T1, T2, f) ==
  \A a, b \in Nodes(T1) :
    (a # b /\ f[a] # 0 /\ f[b] # 0) =>
      /\ f[a] # f[b]
      /\ IsAncestor(T1, a, b) <=> IsAncestor(T2, f[a], f[b])
      /\ IsLeftOf(T1, a, b) <=> IsLeftOf(T2, f[a], f[b])

EditMappings(T1, T2) ==
  {f \in [Nodes(T1) -> 0..T2.n] : IsEditMapping(T1, T2, f)}

(* Unit costs: one per unmapped node of either tree, one per mapped pair    *)
(* of different labels.                                                     *)
UnitCost(T1, T2, f) ==
  LET mapped == {a \in Nodes(T1) : f[a] # 0}
  IN (T1.n - Cardinality(mapped)) + (T2.n - Cardinality(mapped))
       + Cardinality({a \in mapped : T1.cls[a] # T2.cls[f[a]]})

MinUnitCost(T1, T2) ==
  SetMin({UnitCost(T1, T2, f) : f \in EditMappings(T1, T2)})

(* Same shape and the same label at every position. *)
Identical(T1, T2) == T1.parent = T2.parent /\ T1.cls = T2.cls

CountType(ops, type) == Cardinality({k \in DOMAIN ops : ops[k].type = type})

Aligned == pc \in {"aligned", "interpreted", "scored"}

Interpreted == pc \in {"interpreted", "scored"}

One == Ratio(1, 1)

Zero == Ratio(0, 1)

(* What the batch properties speak of, read off the listing itself: the     *)
(* .sql files of the directory, those the parser rejects and those it       *)
(* accepts, and the order of two pairs of file names.                       *)

Discovered ==
  {directory[i].name : i \in {k \in 1..Len(directory) :
      /\ directory[k].is_file
      /\ lower(suffix(directory[k].name)) = <<".", "s", "q", "l">>}}

Failed == {f \in Discovered : parse_sql(read_text(directory, f)).raised}

Parsed == Discovered \ Failed

PairLess(f1, f2, g1, g2) == StrLess(f1, g1) \/ (f1 = g1 /\ StrLess(f2, g2))

(* The size-normalized score of a comparison of two files of the listing. *)
ScoreOf(c) ==
  compute_score(c.distance,
                tree_size(parse_sql(read_text(directory, c.file1)).tree, 1),
                tree_size(parse_sql(read_text(directory, c.file2)).tree, 1))

Range(s) == {s[i] : i \in 1..Len(s)}

----------------------------------------------------------------------------
(* C1: comparing a tree with itself gives distance 0 and an edit script of  *)
(* match operations only, one per node of the tree.                         *)
C1_SelfDistanceZeroAllMatch ==
  tree1 = tree2 =>
    /\ Aligned => distance = 0
    /\ Interpreted =>
         /\ Len(operations) = tree1.n
         /\ \A k \in DOMAIN operations : operations[k].type = "match"

C1_Witness ==
  /\ tree1 = tree2
  /\ tree1.n = 3
  /\ tree1.cls[1] # tree1.cls[2]
  /\ pc = "interpreted"
  /\ Len(operations) = 3

(* C2: the distance is the least unit cost of an edit mapping between the   *)
(* two trees.                                                               *)
C2_DistanceIsMinimumCost ==
  pc = "aligned" => distance = MinUnitCost(tree1, tree2)

C2_Witness ==
  /\ pc = "aligned"
  /\ tree1.n = 3 /\ tree2.n = 3
  /\ tree1.parent # tree2.parent
  /\ distance = 4

(* C3: the mapping holds every node of tree1 once on the left, every node   *)
(* of tree2 once on the right, no entry (None, None), and its operations    *)
(* are as many matches, renames, inserts and deletes as it has entries.     *)
C3_MappingTotal ==
  /\ Aligned =>
       /\ \A a \in Nodes(tree1) :
            Cardinality({k \in DOMAIN mapping : mapping[k][1] = a}) = 1
       /\ \A b \in Nodes(tree2) :
            Cardinality({k \in DOMAIN mapping : mapping[k][2] = b}) = 1
       /\ \A k \in DOMAIN mapping :
            /\ mapping[k] # <<0, 0>>
            /\ mapping[k][1] \in 0..tree1.n
            /\ mapping[k][2] \in 0..tree2.n
  /\ Interpreted =>
       CountType(operations, "match") + CountType(operations, "rename")
         + CountType(operations, "insert") + CountType(operations, "delete")
         = Len(mapping)

C3_Witness ==
  /\ pc = "interpreted"
  /\ tree1.n = 3 /\ tree2.n = 2
  /\ \E k \in DOMAIN mapping : mapping[k][2] = 0
  /\ \E k \in DOMAIN mapping : mapping[k][1] # 0 /\ mapping[k][2] # 0

(* C4: the distance from tree1 to tree2 is the distance from tree2 to       *)
(* tree1.                                                                   *)
C4_DistanceSymmetric ==
  pc = "aligned" => distance = compute_distance(tree2, tree1).distance

C4_Witness ==
  /\ pc = "aligned"
  /\ tree1.n = 1 /\ tree2.n = 3
  /\ distance = 3

(* C5: the distance is the number of operations of the edit script that     *)
(* are not matches.                                                         *)
C5_DistanceIsNonMatchCount ==
  Interpreted =>
    distance = Len(operations) - CountType(operations, "match")

C5_Witness ==
  /\ pc = "interpreted"
  /\ CountType(operations, "match") > 0
  /\ CountType(operations, "rename") > 0
  /\ CountType(operations, "insert") > 0
  /\ CountType(operations, "delete") > 0

(* C6: the size-normalized score of a comparison lies in [0, 1].            *)
C6_ScoreInUnitInterval ==
  pc = "scored" => FloatLe(Zero, score) /\ FloatLe(score, One)

(* The pair of trees on which C6 fails: a chain of three Selects against   *)
(* an Identifier over two Identifiers, at distance 4 and so at score -1/3. *)
C6_FailingInput ==
  /\ pc = "scored"
  /\ tree1 = MkTree(<<0, 1, 2>>, <<"Select", "Select", "Select">>)
  /\ tree2 = MkTree(<<0, 1, 1>>, <<"Identifier", "Identifier", "Identifier">>)
  /\ distance = 4
  /\ score = Ratio(-1, 3)

(* C7: the score is 1.0 exactly when the trees are identical (no tree is    *)
(* empty: tree_size counts the root).                                       *)
C7_ScoreOneIffIdentical ==
  pc = "scored" => (FloatEq(score, One) <=> Identical(tree1, tree2))

C7_Witness ==
  /\ pc = "scored"
  /\ tree1.n = 3
  /\ Identical(tree1, tree2)
  /\ FloatEq(score, One)

(* C8: compute_score returns 1 - distance / max(size1, size2) when that     *)
(* maximum is positive and 1.0 when it is 0, and never divides by zero;     *)
(* a distance equal to a positive maximum gives 0.0.                        *)
C8_ScoreFormula ==
  sPc = "returned" =>
    LET m == IF sSize1 >= sSize2 THEN sSize1 ELSE sSize2
    IN /\ ~raised(sScore)
       /\ m > 0 => sScore.num * m = (m - sDistance) * sScore.den
       /\ m = 0 => sScore.num = sScore.den
       /\ (m > 0 /\ sDistance = m) => sScore.num = 0

C8_Witness ==
  /\ sPc = "returned"
  /\ sSize1 = 0 /\ sSize2 = 0
  /\ FloatEq(sScore, One)

(* C9: with the sizes fixed, a larger distance never gives a larger score.  *)
C9_ScoreMonotone ==
  sPc = "returned" =>
    \A d2 \in 0..MaxArg :
      sDistance < d2 => FloatLe(compute_score(d2, sSize1, sSize2), sScore)

C9_Witness ==
  /\ sPc = "returned"
  /\ sDistance = 1
  /\ Max2(sSize1, sSize2) = 3
  /\ ~FloatLe(sScore, compute_score(2, sSize1, sSize2))

(* C10: deleting a node costs 1, inserting a node costs 1, renaming costs   *)
(* 0 between nodes of one label and 1 otherwise; rename is symmetric and    *)
(* free from a node to itself.                                              *)
C10_UnitCostModel ==
  Aligned =>
    /\ \A a \in Nodes(tree1) :
         /\ delete(tree1, a) = 1
         /\ insert(tree1, a) = 1
         /\ rename(tree1, a, tree1, a) = 0
    /\ \A a \in Nodes(tree1), b \in Nodes(tree2) :
         /\ rename(tree1, a, tree2, b) = rename(tree2, b, tree1, a)
         /\ tree1.cls[a] = tree2.cls[b] => rename(tree1, a, tree2, b) = 0
         /\ tree1.cls[a] # tree2.cls[b] => rename(tree1, a, tree2, b) = 1

C10_Witness ==
  /\ pc = "aligned"
  /\ \E a \in Nodes(tree1), b \in Nodes(tree2) :
       a # b /\ tree1.cls[a] = tree2.cls[b]
  /\ \E a \in Nodes(tree1) : tree1.cls[a] # tree2.cls[a]
(* C11: interpret_mapping gives one operation per mapping entry, in the     *)
(* order of the mapping: (None, b) is an insert of label(b), (a, None) a    *)
(* delete of label(a), (a, b) a match when the labels are equal and a       *)
(* rename when they differ, and there is no fifth type.                     *)
C11_OneOperationPerEntry ==
  Interpreted =>
    /\ Len(operations) = Len(mapping)
    /\ \A k \in DOMAIN mapping :
         LET a == mapping[k][1]
             b == mapping[k][2]
             op == operations[k]
         IN /\ op.type \in {"insert", "delete", "match", "rename"}
            /\ a = 0 =>
                 op.type = "insert" /\ op.target_node = tree2.cls[b]
            /\ (a # 0 /\ b = 0) =>
                 op.type = "delete" /\ op.source_node = tree1.cls[a]
            /\ (a # 0 /\ b # 0 /\ tree1.cls[a] = tree2.cls[b]) =>
                 op.type = "match"
            /\ (a # 0 /\ b # 0 /\ tree1.cls[a] # tree2.cls[b]) =>
                 op.type = "rename"

C11_Witness ==
  /\ pc = "interpreted"
  /\ CountType(operations, "insert") > 0
  /\ CountType(operations, "delete") > 0
  /\ CountType(operations, "match") > 0
  /\ CountType(operations, "rename") > 0
  /\ operations[1].type # operations[Len(operations)].type

(* C12: source_node is None exactly in an insert and target_node is None    *)
(* exactly in a delete; a match has equal source_node and target_node, a    *)
(* rename has different ones.                                               *)
C12_NoneIffInsertOrDelete ==
  Interpreted =>
    \A k \in DOMAIN operations :
      LET op == operations[k]
      IN /\ op.source_node = None <=> op.type = "insert"
         /\ op.target_node = None <=> op.type = "delete"
         /\ op.type = "match" => op.source_node = op.target_node
         /\ op.type = "rename" => op.source_node # op.target_node

C12_Witness ==
  /\ pc = "interpreted"
  /\ \E k \in DOMAIN operations :
       operations[k].type = "insert" /\ operations[k].source_node = None
  /\ \E k \in DOMAIN operations :
       operations[k].type = "delete" /\ operations[k].target_node = None
  /\ \E k \in DOMAIN operations :
       operations[k].type = "rename"

(* C13: n parsed documents give n(n-1)/2 comparisons, one for each          *)
(* unordered pair of distinct parsed documents, with file1 < file2; for     *)
(* n <= 1 the list is empty and compare_all_pairs still returns.            *)
C13_OneComparisonPerPair ==
  bPc = "returned" =>
    /\ batchResult # Nothing
    /\ LET n == Cardinality(Parsed)
           cs == batchResult[1].comparisons
       IN /\ Len(cs) = (n * (n - 1)) \div 2
          /\ \A a, b \in Parsed :
               StrLess(a, b) =>
                 Cardinality({i \in 1..Len(cs) :
                                cs[i].file1 = a /\ cs[i].file2 = b}) = 1
          /\ \A i \in 1..Len(cs) :
               /\ cs[i].file1 \in Parsed
               /\ cs[i].file2 \in Parsed
               /\ StrLess(cs[i].file1, cs[i].file2)
          /\ n <= 1 => cs = <<>>

C13_Witness ==
  /\ bPc = "returned"
  /\ Cardinality(Parsed) = 3
  /\ Len(batchResult[1].comparisons) = 3
  /\ Len(directory) = 4

(* C14: a document the parser rejects is in errors once and in no           *)
(* comparison, the documents after it are still parsed and compared, every  *)
(* discovered file is in files, and a discovered file is in errors or       *)
(* among the compared documents, never both.                                *)
C14_ParseErrorsRecorded ==
  bPc = "returned" =>
    LET r == batchResult[1]
        cs == r.comparisons
        compared == {cs[i].file1 : i \in 1..Len(cs)}
                      \cup {cs[i].file2 : i \in 1..Len(cs)}
        inErrors == {r.errors[i].file : i \in 1..Len(r.errors)}
    IN /\ \A f \in Failed :
            Cardinality({i \in 1..Len(r.errors) : r.errors[i].file = f}) = 1
       /\ inErrors = Failed
       /\ compared \cap Failed = {}
       /\ \A a, b \in Parsed :
            a # b => \E i \in 1..Len(cs) :
                       {cs[i].file1, cs[i].file2} = {a, b}
       /\ Range(r.files) = Discovered
       /\ Len(r.files) = Cardinality(Discovered)
       /\ \A f \in Discovered : (f \in inErrors) # (f \in Parsed)
       /\ Cardinality(Parsed) >= 2 => compared = Parsed

C14_Witness ==
  /\ bPc = "returned"
  /\ Failed = {<<"B", ".", "S", "Q", "L">>}
  /\ Cardinality(Parsed) = 2
  /\ Len(batchResult[1].errors) = 1
  /\ Len(batchResult[1].comparisons) = 1

(* C15: the comparisons are in ascending order of distance, and those of    *)
(* equal distance in the order of (file1, file2).                           *)
C15_SortedByDistanceThenName ==
  bPc = "returned" =>
    LET cs == batchResult[1].comparisons
    IN \A i, j \in 1..Len(cs) :
         i < j =>
           /\ cs[i].distance <= cs[j].distance
           /\ cs[i].distance = cs[j].distance =>
                PairLess(cs[i].file1, cs[i].file2, cs[j].file1, cs[j].file2)

C15_Witness ==
  /\ bPc = "returned"
  /\ LET cs == batchResult[1].comparisons
     IN /\ Len(cs) = 3
        /\ cs[1].distance < cs[2].distance
        /\ cs[2].distance = cs[3].distance
        /\ PairLess(cs[2].file1, cs[2].file2, cs[1].file1, cs[1].file2)

(* C16: the comparisons are in descending order of score: the score of a    *)
(* comparison is at least the score of the one after it.                    *)
C16_SortedByScoreDescending ==
  bPc = "returned" =>
    LET cs == batchResult[1].comparisons
    IN \A i \in 1..(Len(cs) - 1) : FloatLe(ScoreOf(cs[i + 1]), ScoreOf(cs[i]))

C16_FailingInput ==
  /\ bPc = "returned"
  /\ LET cs == batchResult[1].comparisons
     IN /\ Len(cs) = 3
        /\ cs[1].distance = 1 /\ FloatEq(ScoreOf(cs[1]), Zero)
        /\ cs[2].distance = 2 /\ FloatEq(ScoreOf(cs[2]), Ratio(1, 3))

(* C18: filter_by_max_distance returns the comparisons of the list whose    *)
(* distance is at most the threshold, the threshold included, in the order  *)
(* of the list, and the list itself stays as it was.                        *)
C18_FilterByMaxDistance ==
  /\ [](fPc = "max_distance" =>
          LET keep == SortedSeq({i \in 1..Len(fComparisons) :
                                   fComparisons[i].distance <= fMax})
          IN /\ Len(fResult) = Len(keep)
             /\ \A m \in 1..Len(keep) : fResult[m] = fComparisons[keep[m]])
  /\ [][fPc' = "max_distance" => fComparisons' = fComparisons]_vars

C18_Witness ==
  /\ fPc = "max_distance"
  /\ Len(fComparisons) = 3
  /\ fComparisons[1].distance > fMax
  /\ fComparisons[2].distance = fMax
  /\ fComparisons[3].distance < fMax
  /\ Len(fResult) = 2

(* C19: for top >= 1, filter_by_top returns the first min(top, len)         *)
(* comparisons of the list in their order, all of them when the list is     *)
(* shorter than top.                                                        *)
C19_FilterByTop ==
  (fPc = "top" /\ fTop >= 1) =>
    /\ Len(fResult) = Min2(fTop, Len(fComparisons))
    /\ \A i \in 1..Len(fResult) : fResult[i] = fComparisons[i]
    /\ Len(fComparisons) < fTop => fResult = fComparisons

C19_Witness ==
  /\ fPc = "top"
  /\ fTop = 2
  /\ Len(fComparisons) = 3
  /\ fComparisons[1].distance > fComparisons[3].distance
  /\ Len(fResult) = 2

C20_InvalidArgsRejectedFirst ==
  (/\ cPc # "idle"
   /\ \/ args.max_edits # Nothing /\ args.max_edits[1] < 0
      \/ args.top # Nothing /\ args.top[1] < 1) =>
    /\ cPc \in {"execute", "returned"}
    /\ cPc = "returned" => exit_code = Some(4)
    /\ cResult = Nothing
    /\ filtered_comparisons = <<>>
    /\ output = Nothing

C20_Witness ==
  /\ cPc = "returned"
  /\ exit_code = Some(4)
  /\ args.max_edits = Some(1)
  /\ args.top = Some(0)
  /\ dirExists
  /\ Len(scan_directory(directory)) = 3

(* C23: two trees of the same shape that differ in the text of one          *)
(* Identifier leaf only have a distance above 0 and an edit script with a   *)
(* rename of that leaf, every other operation being a match.                *)
C23_IdentifierTextRenamed ==
  Interpreted =>
    /\ distance > 0
    /\ CountType(operations, "rename") >= 1
    /\ \A k \in DOMAIN operations :
         operations[k].type \in {"rename", "match"}
    /\ \A k \in DOMAIN operations :
         operations[k].type = "rename" =>
           /\ operations[k].source_node # operations[k].target_node
           /\ tree1.args[mapping[k][1]] # tree2.args[mapping[k][2]]

C23_FailingInput ==
  /\ pc = "interpreted"
  /\ tree1 # tree2
  /\ tree1.n = 3
  /\ distance = 0
  /\ CountType(operations, "match") = 3

(* C26: the complete pairs of the mapping are an edit mapping of ordered    *)
(* trees: no node is in two of them, a is an ancestor of a' exactly when b  *)
(* is an ancestor of b', and a is to the left of a' exactly when b is to    *)
(* the left of b'; so a mapped node under a mapped node stays under the     *)
(* image of that node.                                                      *)
C26_MappingIsEditMapping ==
  Aligned =>
    \A k, l \in DOMAIN mapping :
      (/\ k # l
       /\ mapping[k][1] # 0 /\ mapping[k][2] # 0
       /\ mapping[l][1] # 0 /\ mapping[l][2] # 0) =>
        LET a == mapping[k][1]
            b == mapping[k][2]
            a2 == mapping[l][1]
            b2 == mapping[l][2]
        IN /\ a # a2
           /\ b # b2
           /\ IsAncestor(tree1, a, a2) <=> IsAncestor(tree2, b, b2)
           /\ IsLeftOf(tree1, a, a2) <=> IsLeftOf(tree2, b, b2)

C26_Witness ==
  /\ pc = "aligned"
  /\ tree1.n = 3 /\ tree2.n = 3
  /\ tree1.parent = <<0, 1, 2>>
  /\ tree2.parent = <<0, 1, 1>>
  /\ Cardinality({k \in DOMAIN mapping :
                    mapping[k][1] # 0 /\ mapping[k][2] # 0}) = 2

(* C27: tree_path of an operation is the labels of the ancestors of its     *)
(* node from the root down to the parent, joined by " > ", and "" exactly   *)
(* for a root; the node is the node of tree1 for a match, rename or delete  *)
(* and the node of tree2 for an insert; node_type is "terminal" exactly for *)
(* a Literal or an Identifier and "rule" otherwise.                         *)
C27_PathAndNodeType ==
  Interpreted =>
    \A k \in DOMAIN operations :
      LET op == operations[k]
          T == IF op.type = "insert" THEN tree2 ELSE tree1
          node == IF op.type = "insert" THEN mapping[k][2] ELSE mapping[k][1]
          above == SortedSeq(Ancestors(T, node))
      IN /\ node # 0
         /\ op.tree_path =
              Join(" > ", [m \in 1..Len(above) |-> T.cls[above[m]]])
         /\ op.tree_path = "" <=> T.parent[node] = 0
         /\ op.node_type = "terminal" <=>
              T.cls[node] \in {"Literal", "Identifier"}
         /\ op.node_type \in {"terminal", "rule"}

C27_Witness ==
  /\ pc = "interpreted"
  /\ \E k \in DOMAIN operations :
       /\ operations[k].type = "insert"
       /\ operations[k].tree_path \notin {"", "Select", "Identifier"}
  /\ \E k \in DOMAIN operations :
       /\ operations[k].type # "insert"
       /\ operations[k].tree_path = "Identifier"
       /\ operations[k].node_type = "rule"
  /\ \E k \in DOMAIN operations : operations[k].node_type = "terminal"

(* C28: inserts minus deletes is the size of tree2 minus the size of        *)
(* tree1; the distance is at least the difference of the sizes and at most  *)
(* their sum; and when tree2 is the larger there is an insert, the          *)
(* distance is above 0 and the score is below 1.0.                          *)
C28_InsertsMinusDeletes ==
  LET size1 == tree_size(tree1, 1)
      size2 == tree_size(tree2, 1)
  IN /\ Aligned =>
          /\ distance >= size1 - size2
          /\ distance >= size2 - size1
          /\ distance <= size1 + size2
          /\ size2 > size1 => distance > 0
     /\ Interpreted =>
          /\ CountType(operations, "insert") - CountType(operations, "delete")
               = size2 - size1
          /\ size2 > size1 => CountType(operations, "insert") >= 1
     /\ (pc = "scored" /\ size2 > size1) =>
          ~FloatLe(One, score) /\ ~raised(score)

C28_Witness ==
  /\ pc = "scored"
  /\ tree_size(tree1, 1) = 2
  /\ tree_size(tree2, 1) = 3
  /\ CountType(operations, "insert") = 2
  /\ CountType(operations, "delete") = 1

Orders(n) ==
  {p \in [1..n -> 1..n] : \A i, j \in 1..n : i # j => p[i] # p[j]}

(* C25: the result of compare_all_pairs (files, errors and the ordered      *)
(* comparisons) is the same for every order in which the listing            *)
(* enumerates the same entries, hence also for every order in which the     *)
(* parsed files reach the pairing.                                          *)
C25_SameForEveryListingOrder ==
  bPc = "returned" =>
    \A p \in Orders(Len(directory)) :
      compare_all_pairs([i \in 1..Len(directory) |-> directory[p[i]]])
        = batchResult[1]

(* A listing out of name order with three files that parse, two of the     *)
(* comparisons at the same distance.                                       *)
C25_Witness ==
  /\ bPc = "returned"
  /\ \E i, j \in 1..Len(directory) :
       i < j /\ StrLess(directory[j].name, directory[i].name)
  /\ Len(batchResult[1].comparisons) = 3
  /\ \E i, j \in 1..3 :
       /\ i # j
       /\ batchResult[1].comparisons[i].distance
            = batchResult[1].comparisons[j].distance

(* What execute is to return on the two paths. *)
Unparsable(file) == file.kind = "file" /\ parse_sql(file.text).raised

ExpectedPairExit ==
  IF pArgs.path2 = Nothing THEN INVALID_ARGS
  ELSE IF pFile1.kind = "missing" \/ pFile2.kind = "missing"
         THEN FILE_NOT_FOUND
  ELSE IF Unparsable(pFile1) \/ Unparsable(pFile2) THEN PARSE_ERROR
  ELSE SUCCESS

(* C22: pair mode ends by returning the exit code of the first failing     *)
(* check: INVALID_ARGS without a second path, FILE_NOT_FOUND when a path    *)
(* names nothing, PARSE_ERROR when a text does not parse, else SUCCESS;     *)
(* the error names the first file at fault and the result is printed only   *)
(* with SUCCESS.                                                            *)
C22_FirstFailingCheck ==
  /\ pPc # "raised"
  /\ pPc = "returned" =>
       /\ pExit = Some(ExpectedPairExit)
       /\ (pStdout # Nothing) <=> (pExit = Some(SUCCESS))
       /\ pExit = Some(FILE_NOT_FOUND) =>
            pStderr = Some("Error: File not found: " \o
                             (IF pFile1.kind = "missing" THEN "path1"
                              ELSE "path2"))
       /\ pExit = Some(PARSE_ERROR) =>
            pStderr = Some("Error: Failed to parse " \o
                             (IF Unparsable(pFile1) THEN "path1"
                              ELSE "path2"))

(* The first path names a file that parses and the second a directory:      *)
(* execute is left by an IsADirectoryError and returns no exit code.        *)
C22_FailingInput ==
  /\ pPc = "raised"
  /\ pFile1 = [kind |-> "file", text |-> "SELECT"]
  /\ pFile2.kind = "directory"
  /\ pException = Some("IsADirectoryError")
  /\ pExit = Nothing

(* The nodes reached from a node through children in at most k steps. *)
RECURSIVE ReachedByChildren(_, _, _)
ReachedByChildren(S, from, k) ==
  IF k = 0 THEN from
  ELSE ReachedByChildren(
         S, from \cup UNION {Range(S.kids[i]) : i \in from}, k - 1)

(* A node reachable from itself through children, below the given node. *)
ChildrenCycle(S, node) ==
  \E i \in ReachedByChildren(S, {node}, S.n) :
    i \in ReachedByChildren(S, Range(S.kids[i]), S.n)

(* The parent chain of the node runs into a loop. *)
RECURSIVE ParentChainLoops(_, _, _)
ParentChainLoops(S, node, k) ==
  IF node = 0 THEN FALSE
  ELSE IF k = 0 THEN TRUE
  ELSE ParentChainLoops(S, S.parent[node], k - 1)

Cyclic ==
  \/ tOp = "tree_size" /\ ChildrenCycle(tStruct, tNode)
  \/ tOp = "_get_tree_path" /\ ParentChainLoops(tStruct, tNode, tStruct.n)

(* C24: a call of tree_size or _get_tree_path ends: it returns on a        *)
(* structure without a cycle and raises an error on one with a cycle, and   *)
(* never runs forever.                                                      *)
C24_EndsOrRaises ==
  /\ [](tPc = "returned" => ~Cyclic)
  /\ [](tPc = "raised" => Cyclic)
  /\ <>(tPc \in {"returned", "raised"})

(* _get_tree_path on a node whose parent chain loops between the two nodes: *)
(* path_parts holds more labels than there are nodes and the loop goes on.  *)
C24_FailingInput ==
  /\ tOp = "_get_tree_path"
  /\ tStruct.n = 2
  /\ tStruct.parent = <<2, 1>>
  /\ tPc = "while"
  /\ tCurrent # 0
  /\ Len(tPathParts) > tStruct.n

====
